---------------------------- MODULE Spec2Model ----------------------------
(***************************************************************************)
(* A model of scripts/gen_api.py: the PHPDoc extractor (PHPDocParser), the  *)
(* markdown renderer and the directory walker (APIDocumentationGenerator).  *)
(*                                                                         *)
(* Text is a sequence of lexemes.  A lexeme is an atomic piece of text: a   *)
(* whole word (a maximal run of \w characters), one whitespace character,   *)
(* or one punctuation mark ("/**" and "*/" are one lexeme each).  Python's  *)
(* 0-based character offset p is the 1-based lexeme index p+1, a slice      *)
(* content[a:b] is SubSeq(content, a, b-1), and the "not found" result -1   *)
(* of find/rfind is 0.  The regular expressions are translated element by   *)
(* element over lexemes (\s is a whitespace lexeme, \w+ a run of word       *)
(* lexemes, [^x]+ a run of lexemes other than x).  None and the empty       *)
(* string are both the empty sequence: the code only tests their truth.     *)
(***************************************************************************)
EXTENDS Integers, Sequences, FiniteSets, TLC

(* ------------------------------------------------------------------ *)
(* Lexemes                                                             *)
(* ------------------------------------------------------------------ *)

Whitespace == {" ", "\n"}

Keywords == {"class", "interface", "enum", "extends", "implements",
             "function", "case", "public", "private", "protected",
             "static", "readonly"}

Identifiers == {"A", "B", "C", "E", "I", "J", "T", "f", "x", "c1", "c2",
                "v", "txt", "wraps"}

Words == Keywords \cup Identifiers

IsWs(t) == t \in Whitespace

IsWord(t) == t \in Words

Min(S) == CHOOSE m \in S : \A n \in S : m <= n

Max(S) == CHOOSE m \in S : \A n \in S : m >= n

\* s[i], or "" (no lexeme) outside the text
At(s, i) == IF i >= 1 /\ i <= Len(s) THEN s[i] ELSE ""

\* the index after the longest run of whitespace starting at i (\s*)
RECURSIVE SkipWs(_, _)
SkipWs(s, i) == IF IsWs(At(s, i)) THEN SkipWs(s, i + 1) ELSE i

\* the index after the longest run of word lexemes starting at i (\w+)
RECURSIVE SkipWord(_, _)
SkipWord(s, i) == IF IsWord(At(s, i)) THEN SkipWord(s, i + 1) ELSE i

\* str.find(lex, i): the first index >= i holding lex, 0 when there is none
Find(s, lex, i) ==
    LET hits == {j \in i..Len(s) : j >= 1 /\ s[j] = lex}
    IN  IF hits = {} THEN 0 ELSE Min(hits)

\* str.rfind(lex, 0, position): the last index before position holding lex
RFind(s, lex, position) ==
    LET hits == {j \in 1..Len(s) : j < position /\ s[j] = lex}
    IN  IF hits = {} THEN 0 ELSE Max(hits)

\* the first index >= i holding a lexeme of set stops, 0 when there is none
FindAny(s, stops, i) ==
    LET hits == {j \in i..Len(s) : j >= 1 /\ s[j] \in stops}
    IN  IF hits = {} THEN 0 ELSE Min(hits)

\* str.strip(): leading and trailing whitespace removed
RECURSIVE Strip(_)
Strip(s) ==
    IF s = <<>> THEN s
    ELSE IF IsWs(Head(s)) THEN Strip(Tail(s))
    ELSE IF IsWs(s[Len(s)]) THEN Strip(SubSeq(s, 1, Len(s) - 1))
    ELSE s

\* str.split(sep): the pieces between the occurrences of sep
RECURSIVE Split(_, _)
Split(s, sep) ==
    LET j == Find(s, sep, 1)
    IN  IF j = 0 THEN <<s>>
        ELSE <<SubSeq(s, 1, j - 1)>> \o Split(SubSeq(s, j + 1, Len(s)), sep)

\* sep.join(parts)
RECURSIVE Join(_, _)
Join(parts, sep) ==
    IF parts = <<>> THEN <<>>
    ELSE IF Len(parts) = 1 THEN parts[1]
    ELSE parts[1] \o sep \o Join(Tail(parts), sep)

\* [f(x) for x in parts] with f = strip
StripAll(parts) == [k \in 1..Len(parts) |-> Strip(parts[k])]

(* ------------------------------------------------------------------ *)
(* PHPDocParser                                                        *)
(* ------------------------------------------------------------------ *)

\* a failed re match; a match is [start, end (exclusive), g1, g2, g3]
NoMatch == [start |-> 0, end |-> 0, g1 |-> <<>>, g2 |-> <<>>, g3 |-> <<>>]

\* the optional group (?:\s+kw\s+(\w+))? tried at index p: where it ends, 0 when it fails
WordClause(s, kw, p) ==
    LET a == SkipWs(s, p)
        b == SkipWs(s, a + 1)
        c == SkipWord(s, b)
    IN  IF a > p /\ At(s, a) = kw /\ b > a + 1 /\ c > b THEN c ELSE 0

\* the optional group (?:\s+kw\s+([^{]+))? tried at index p: the index of the
\* "{" that stops it, 0 when it fails.  \s+ and [^{]+ each need one lexeme.
ListClause(s, kw, p) ==
    LET a == SkipWs(s, p)
        b == Find(s, "{", a + 1)
    IN  IF a > p /\ At(s, a) = kw /\ IsWs(At(s, a + 1)) /\ b >= a + 3 THEN b ELSE 0

\* group ([^{]+) of ListClause: \s+ is greedy and gives back one lexeme when
\* nothing else is left for [^{]+
ListGroup(s, p, brace) ==
    LET a == SkipWs(s, p)
        w == SkipWs(s, a + 1)
    IN  SubSeq(s, IF w < brace THEN w ELSE brace - 1, brace - 1)

\* class\s+(\w+)(?:\s+extends\s+(\w+))?(?:\s+implements\s+([^{]+))?\s*\{  at index i
class_pattern(s, i) ==
    LET n1 == SkipWs(s, i + 1)
        n2 == SkipWord(s, n1)
        e  == WordClause(s, "extends", n2)
        p  == IF e > 0 THEN e ELSE n2
        m  == ListClause(s, "implements", p)
        q  == IF m > 0 THEN m ELSE SkipWs(s, p)
    IN  IF At(s, i) = "class" /\ n1 > i + 1 /\ n2 > n1 /\ At(s, q) = "{"
        THEN [start |-> i, end |-> q + 1,
              g1 |-> SubSeq(s, n1, n2 - 1),
              g2 |-> IF e > 0 THEN SubSeq(s, SkipWs(s, SkipWs(s, n2) + 1), e - 1) ELSE <<>>,
              g3 |-> IF m > 0 THEN ListGroup(s, p, m) ELSE <<>>]
        ELSE NoMatch

\* interface\s+(\w+)(?:\s+extends\s+([^{]+))?\s*\{  at index i
interface_pattern(s, i) ==
    LET n1 == SkipWs(s, i + 1)
        n2 == SkipWord(s, n1)
        m  == ListClause(s, "extends", n2)
        q  == IF m > 0 THEN m ELSE SkipWs(s, n2)
    IN  IF At(s, i) = "interface" /\ n1 > i + 1 /\ n2 > n1 /\ At(s, q) = "{"
        THEN [start |-> i, end |-> q + 1,
              g1 |-> SubSeq(s, n1, n2 - 1),
              g2 |-> IF m > 0 THEN ListGroup(s, n2, m) ELSE <<>>,
              g3 |-> <<>>]
        ELSE NoMatch

\* enum\s+(\w+)(?:\s+:\s+(\w+))?\s*\{  at index i
enum_pattern(s, i) ==
    LET n1 == SkipWs(s, i + 1)
        n2 == SkipWord(s, n1)
        b  == WordClause(s, ":", n2)
        q  == SkipWs(s, IF b > 0 THEN b ELSE n2)
    IN  IF At(s, i) = "enum" /\ n1 > i + 1 /\ n2 > n1 /\ At(s, q) = "{"
        THEN [start |-> i, end |-> q + 1,
              g1 |-> SubSeq(s, n1, n2 - 1),
              g2 |-> IF b > 0 THEN SubSeq(s, SkipWs(s, SkipWs(s, n2) + 1), b - 1) ELSE <<>>,
              g3 |-> <<>>]
        ELSE NoMatch


Visibility == {"public", "private", "protected"}

\* the positions after the optional (?:public|private|protected)? and \s*
AfterVisibility(s, i) ==
    {SkipWs(s, p) : p \in {i} \cup (IF At(s, i) \in Visibility THEN {i + 1} ELSE {})}

\* the positions after an optional (?:kw\s+)? tried at each position of P
AfterKeyword(s, kw, P) ==
    P \cup {SkipWs(s, p + 1) : p \in {x \in P : At(s, x) = kw /\ IsWs(At(s, x + 1))}}

\* the positions after an optional (?:\w+\s+)? tried at each position of P
AfterType(s, P) ==
    P \cup {SkipWs(s, SkipWord(s, p)) :
                p \in {x \in P : SkipWord(s, x) > x /\ IsWs(At(s, SkipWord(s, x)))}}

\* (?:public|private|protected)?\s*(?:static\s+)?function\s+(\w+)\s*\([^)]*\)\s*(?::\s*(\w+))?\s*\{
method_pattern(s, i) ==
    LET F  == {p \in AfterKeyword(s, "static", AfterVisibility(s, i)) : At(s, p) = "function"}
        f  == CHOOSE p \in F : TRUE
        n1 == SkipWs(s, f + 1)
        n2 == SkipWord(s, n1)
        o  == SkipWs(s, n2)
        c  == Find(s, ")", o + 1)
        r  == SkipWs(s, c + 1)
        t1 == SkipWs(s, r + 1)
        t2 == SkipWord(s, t1)
        typed == At(s, r) = ":" /\ t2 > t1
        q  == IF typed THEN SkipWs(s, t2) ELSE r
    IN  IF F # {} /\ n1 > f + 1 /\ n2 > n1 /\ At(s, o) = "(" /\ c > 0 /\ At(s, q) = "{"
        THEN [start |-> i, end |-> q + 1,
              g1 |-> SubSeq(s, n1, n2 - 1),
              g2 |-> IF typed THEN SubSeq(s, t1, t2 - 1) ELSE <<>>,
              g3 |-> <<>>]
        ELSE NoMatch

\* (?:public|private|protected)?\s*(?:readonly\s+)?(?:\w+\s+)?\$(\w+)(?:\s*=\s*[^;]+)?;
property_pattern(s, i) ==
    LET D  == {p \in AfterType(s, AfterKeyword(s, "readonly", AfterVisibility(s, i))) :
                  At(s, p) = "$"}
        d  == CHOOSE p \in D : TRUE
        n2 == SkipWord(s, d + 1)
        eq == SkipWs(s, n2)
        sc == Find(s, ";", eq + 1)
        q  == IF At(s, eq) = "=" /\ sc >= eq + 2 THEN sc ELSE n2
    IN  IF D # {} /\ n2 > d + 1 /\ At(s, q) = ";"
        THEN [start |-> i, end |-> q + 1,
              g1 |-> SubSeq(s, d + 1, n2 - 1), g2 |-> <<>>, g3 |-> <<>>]
        ELSE NoMatch

\* case\s+(\w+)(?:\s*=\s*[^,;]+)?[,;]
case_pattern(s, i) ==
    LET n1 == SkipWs(s, i + 1)
        n2 == SkipWord(s, n1)
        eq == SkipWs(s, n2)
        st == FindAny(s, {",", ";"}, eq + 1)
        q  == IF At(s, eq) = "=" /\ st >= eq + 2 THEN st ELSE n2
    IN  IF At(s, i) = "case" /\ n1 > i + 1 /\ n2 > n1 /\ At(s, q) \in {",", ";"}
        THEN [start |-> i, end |-> q + 1,
              g1 |-> SubSeq(s, n1, n2 - 1), g2 |-> <<>>, g3 |-> <<>>]
        ELSE NoMatch

\* the matches re.finditer yields, given the match (or NoMatch) tried at each
\* index: leftmost first, each search resuming where the last match ended
RECURSIVE Scan(_, _)
Scan(tried, i) ==
    LET hits == {j \in i..Len(tried) : tried[j].start > 0}
    IN  IF hits = {} THEN <<>>
        ELSE <<tried[Min(hits)]>> \o Scan(tried, tried[Min(hits)].end)

\* re.finditer(pattern, s, re.MULTILINE), tried[i] being the pattern's match at
\* index i of s
finditer(tried) == Scan(tried, 1)

\* PHPDocParser._extract_phpdoc_before
_extract_phpdoc_before(content, position) ==
    LET start == RFind(content, "/**", position)
        end   == Find(content, "*/", start)
    IN  IF start = 0 THEN <<>>
        ELSE IF end = 0 THEN <<>>
        ELSE SubSeq(content, start, end)

\* PHPDocParser._extract_methods
_extract_methods(content, class_start, class_end) ==
    LET body  == SubSeq(content, class_start, class_end - 1)
        found == finditer([i \in 1..Len(body) |-> method_pattern(body, i)])
    IN  [k \in 1..Len(found) |->
            [name        |-> found[k].g1,
             return_type |-> found[k].g2,
             docstring   |-> _extract_phpdoc_before(content, class_start + found[k].start - 1)]]

\* PHPDocParser._extract_properties
_extract_properties(content, class_start, class_end) ==
    LET body  == SubSeq(content, class_start, class_end - 1)
        found == finditer([i \in 1..Len(body) |-> property_pattern(body, i)])
    IN  [k \in 1..Len(found) |->
            [name      |-> found[k].g1,
             docstring |-> _extract_phpdoc_before(content, class_start + found[k].start - 1)]]

\* PHPDocParser._extract_enum_cases
_extract_enum_cases(content, enum_start, enum_end) ==
    LET body  == SubSeq(content, enum_start, enum_end - 1)
        found == finditer([i \in 1..Len(body) |-> case_pattern(body, i)])
    IN  [k \in 1..Len(found) |->
            [name      |-> found[k].g1,
             docstring |-> _extract_phpdoc_before(content, enum_start + found[k].start - 1)]]

\* [i.strip() for i in group.split(',')] if group else []
NameList(group) == IF group = <<>> THEN <<>> ELSE StripAll(Split(group, ","))

\* PHPDocParser._parse_content: the 'classes' list
ParseClasses(content) ==
    LET found == finditer([i \in 1..Len(content) |-> class_pattern(content, i)])
    IN  [k \in 1..Len(found) |->
            [name       |-> found[k].g1,
             extends    |-> found[k].g2,
             implements |-> NameList(found[k].g3),
             docstring  |-> _extract_phpdoc_before(content, found[k].start),
             methods    |-> _extract_methods(content, found[k].start, found[k].end),
             properties |-> _extract_properties(content, found[k].start, found[k].end)]]

\* PHPDocParser._parse_content: the 'interfaces' list
ParseInterfaces(content) ==
    LET found == finditer([i \in 1..Len(content) |-> interface_pattern(content, i)])
    IN  [k \in 1..Len(found) |->
            [name      |-> found[k].g1,
             extends   |-> NameList(found[k].g2),
             docstring |-> _extract_phpdoc_before(content, found[k].start),
             methods   |-> _extract_methods(content, found[k].start, found[k].end)]]

\* PHPDocParser._parse_content: the 'enums' list
ParseEnums(content) ==
    LET found == finditer([i \in 1..Len(content) |-> enum_pattern(content, i)])
    IN  [k \in 1..Len(found) |->
            [name         |-> found[k].g1,
             backing_type |-> found[k].g2,
             docstring    |-> _extract_phpdoc_before(content, found[k].start),
             cases        |-> _extract_enum_cases(content, found[k].start, found[k].end)]]

\* PHPDocParser._parse_content
_parse_content(content) ==
    [classes    |-> ParseClasses(content),
     interfaces |-> ParseInterfaces(content),
     enums      |-> ParseEnums(content),
     functions  |-> <<>>,
     constants  |-> <<>>]

(* ------------------------------------------------------------------ *)
(* APIDocumentationGenerator: rendering                                *)
(*                                                                     *)
(* A document is a sequence of lexemes too: the template's literals     *)
(* ("# ", "**Extends:** ", "## Methods", the blank line "\n\n", ...)    *)
(* are one lexeme each, and the names and doc-comment text are the      *)
(* source's lexemes.  No source lexeme is a template literal.           *)
(* ------------------------------------------------------------------ *)

\* str.startswith('*') of a line's first lexeme
StartsWithStar(line) == line # <<>> /\ Head(line) \in {"*", "*/"}

\* [line for line in lines if line and not line.startswith('*')]
RECURSIVE KeepLines(_)
KeepLines(lines) ==
    IF lines = <<>> THEN <<>>
    ELSE IF Head(lines) # <<>> /\ ~StartsWithStar(Head(lines))
         THEN <<Head(lines)>> \o KeepLines(Tail(lines))
         ELSE KeepLines(Tail(lines))

\* APIDocumentationGenerator._format_phpdoc
_format_phpdoc(phpdoc) ==
    LET stripped == Strip(phpdoc)
        opened   == IF stripped # <<>> /\ Head(stripped) = "/**" THEN Tail(stripped) ELSE stripped
        content  == IF opened # <<>> /\ opened[Len(opened)] = "*/"
                    THEN SubSeq(opened, 1, Len(opened) - 1) ELSE opened
        lines    == StripAll(Split(content, "\n"))
    IN  IF phpdoc = <<>> THEN <<>> ELSE Join(KeepLines(lines), <<"\n">>)

\* if info['docstring']: content += self._format_phpdoc(info['docstring']) + "\n\n"
DocParagraph(docstring) ==
    IF docstring # <<>> THEN _format_phpdoc(docstring) \o <<"\n\n">> ELSE <<>>

\* the grave accent that opens and closes a markdown code span
Tick == "<tick>"

\* ', '.join(names, each in a code span)
Backticked(names) == Join([k \in 1..Len(names) |-> <<Tick>> \o names[k] \o <<Tick>>], <<", ">>)

\* the "## Methods" section of a class or interface document
MethodsSection(methods) ==
    IF methods = <<>> THEN <<>>
    ELSE <<"## Methods", "\n\n">> \o
         Join([k \in 1..Len(methods) |->
                  <<"### ">> \o methods[k].name \o <<"()", "\n\n">>
                  \o DocParagraph(methods[k].docstring)
                  \o (IF methods[k].return_type # <<>>
                      THEN <<"**Returns:** ", Tick>> \o methods[k].return_type \o <<Tick, "\n\n">>
                      ELSE <<>>)], <<>>)

\* the "## Properties" section of a class document
PropertiesSection(properties) ==
    IF properties = <<>> THEN <<>>
    ELSE <<"## Properties", "\n\n">> \o
         Join([k \in 1..Len(properties) |->
                  <<"### ", "$">> \o properties[k].name \o <<"\n\n">>
                  \o DocParagraph(properties[k].docstring)], <<>>)

\* the "## Cases" section of an enum document
CasesSection(cases) ==
    IF cases = <<>> THEN <<>>
    ELSE <<"## Cases", "\n\n">> \o
         Join([k \in 1..Len(cases) |->
                  <<"### ">> \o cases[k].name \o <<"\n\n">>
                  \o DocParagraph(cases[k].docstring)], <<>>)

\* the class document with "if class_info['methods']:" left out
ClassDocMethodsAlways(info) ==
    <<"# ">> \o info.name \o <<"\n\n">>
    \o DocParagraph(info.docstring)
    \o (IF info.extends # <<>>
        THEN <<"**Extends:** ", Tick>> \o info.extends \o <<Tick, "\n\n">> ELSE <<>>)
    \o (IF info.implements # <<>>
        THEN <<"**Implements:** ">> \o Backticked(info.implements) \o <<"\n\n">> ELSE <<>>)
    \o <<"## Methods", "\n\n">> \o MethodsSection(info.methods)
    \o PropertiesSection(info.properties)

\* APIDocumentationGenerator._generate_class_doc: the text it composes
ClassDoc(class_info) ==
    <<"# ">> \o class_info.name \o <<"\n\n">>
    \o DocParagraph(class_info.docstring)
    \o (IF class_info.extends # <<>>
        THEN <<"**Extends:** ", Tick>> \o class_info.extends \o <<Tick, "\n\n">> ELSE <<>>)
    \o (IF class_info.implements # <<>>
        THEN <<"**Implements:** ">> \o Backticked(class_info.implements) \o <<"\n\n">> ELSE <<>>)
    \o MethodsSection(class_info.methods)
    \o PropertiesSection(class_info.properties)

\* APIDocumentationGenerator._generate_interface_doc: the text it composes
InterfaceDoc(interface_info) ==
    <<"# ">> \o interface_info.name \o <<" Interface", "\n\n">>
    \o DocParagraph(interface_info.docstring)
    \o (IF interface_info.extends # <<>>
        THEN <<"**Extends:** ">> \o Backticked(interface_info.extends) \o <<"\n\n">> ELSE <<>>)
    \o MethodsSection(interface_info.methods)

\* APIDocumentationGenerator._generate_enum_doc: the text it composes
EnumDoc(enum_info) ==
    <<"# ">> \o enum_info.name \o <<" Enum", "\n\n">>
    \o DocParagraph(enum_info.docstring)
    \o (IF enum_info.backing_type # <<>>
        THEN <<"**Backing Type:** ", Tick>> \o enum_info.backing_type \o <<Tick, "\n\n">> ELSE <<>>)
    \o CasesSection(enum_info.cases)

(* ------------------------------------------------------------------ *)
(* APIDocumentationGenerator: the walk over the source tree            *)
(*                                                                     *)
(* A source file is named by its path relative to src_path: the         *)
(* directories and the stem of a name ending in ".php" (rglob("*.php")).*)
(* str(file_path) is src_path's segments, the directories and the name  *)
(* joined by "/": a sequence of lexemes, "/" and ".php" being one each.  *)
(* ------------------------------------------------------------------ *)

\* the most files the source tree holds
MaxFiles == 2

\* the most declarations a source file of the walk holds
MaxDecls == 2

SrcRoots == {<<"src">>, <<"tests">>}

RelPaths == {[dirs |-> <<>>,         stem |-> "a"],
             [dirs |-> <<"tests">>,  stem |-> "a"],
             [dirs |-> <<"vendor">>, stem |-> "a"],
             [dirs |-> <<"lib">>,    stem |-> "Test"],
             [dirs |-> <<"lib">>,    stem |-> "test"],
             [dirs |-> <<"lib">>,    stem |-> "UserTest"]}

\* the orders in which rglob may list the files of a tree of at most MaxFiles files
FileLists ==
    UNION {{fs \in [1..n -> RelPaths] : \A i, j \in 1..n : i # j => fs[i] # fs[j]} :
              n \in 0..MaxFiles}

\* str(file_path): the segments of src_path and of the relative path joined
\* by "/", the name ending in ".php"
PathText(root, file) ==
    Join([k \in 1..(Len(root) + Len(file.dirs)) |-> <<(root \o file.dirs)[k]>>] \o
         <<(<<file.stem, ".php">>)>>, <<"/">>)

\* pattern in text
Contains(s, pattern) ==
    \E i \in 1..(Len(s) - Len(pattern) + 1) : SubSeq(s, i, i + Len(pattern) - 1) = pattern

\* skip_patterns = ['/tests/', '/vendor/', '/Test.php', '/test.php']
skip_patterns == <<(<<"/", "tests", "/">>), (<<"/", "vendor", "/">>),
                   (<<"/", "Test", ".php">>), (<<"/", "test", ".php">>)>>

\* the check with '/vendor/' left out of skip_patterns
_should_skip_file_no_vendor(root, file) ==
    \E k \in {1, 3, 4} : Contains(PathText(root, file), skip_patterns[k])

\* APIDocumentationGenerator._should_skip_file
_should_skip_file(root, file) ==
    \E k \in 1..Len(skip_patterns) : Contains(PathText(root, file), skip_patterns[k])

\* docs_path / relative_path.with_suffix('.md'), as the path below docs_path
DocPath(file) == [dirs |-> file.dirs, stem |-> file.stem]

\* the file opened with mode 'a': the text is added to what the file held
WriteTextAppending(old, content) == old \o content

\* what a file holds once open(doc_path, 'w') and f.write(content) are done
WriteText(old, content) == content

\* a file of the documentation tree: absent, or present with its text
Absent == [exists |-> FALSE, text |-> <<>>]

File(text) == [exists |-> TRUE, text |-> text]

\* the source texts the walk reads: up to MaxDecls declarations
DriverItems ==
    {<<"class", " ", "A", " ", "{", " ", "}", "\n">>,
     <<"interface", " ", "I", " ", "{", " ", "}", "\n">>,
     <<"enum", " ", "E", " ", "{", " ", "case", " ", "c1", ";", " ", "}", "\n">>}

RECURSIVE Texts(_, _)
Texts(items, n) ==
    IF n = 0 THEN {<<>>}
    ELSE LET shorter == Texts(items, n - 1)
         IN  shorter \cup {t \o i : t \in shorter, i \in items}

DriverSources == Texts(DriverItems, MaxDecls)

\* PHPDocParser.parse_file, the text read given: return self._parse_content(content)
parse_file(source) == _parse_content(source)

\* APIDocumentationGenerator._process_php_file: the three for loops, as the
\* renders still to do, in order
RenderQueue(result) ==
    [k \in 1..Len(result.classes) |-> [kind |-> "class", info |-> result.classes[k]]]
    \o [k \in 1..Len(result.interfaces) |-> [kind |-> "interface", info |-> result.interfaces[k]]]
    \o [k \in 1..Len(result.enums) |-> [kind |-> "enum", info |-> result.enums[k]]]

\* no except clause: the exception leaves _process_php_file
ExceptClauseMissing == [caught |-> FALSE]

\* APIDocumentationGenerator._process_php_file: "except Exception as e: print(...)";
\* the run goes on with the next file
ExceptClause == [caught |-> TRUE]

EmptyResult == [classes |-> <<>>, interfaces |-> <<>>, enums |-> <<>>,
                functions |-> <<>>, constants |-> <<>>]

VARIABLES
    pc,         \* where the run is: "main", "loop", "render", "done", "exit", "crashed"
    argc,       \* len(sys.argv)
    src_path,   \* the segments of the source root
    php_files,  \* list(self.src_path.rglob("*.php"))
    idx,        \* the index in php_files of the loop's next file
    current,    \* the index of the file _process_php_file was last called on, 0 if none
    content,    \* the text parse_file last read
    parsed,     \* what _parse_content returned for it
    queue,      \* the renders of the current file still to do
    disk,       \* the documentation tree: DocPath -> file
    opened,     \* the source files opened for reading
    written,    \* the output paths opened for writing, in order
    errors,     \* the files whose "Error processing" line was printed, in order
    banner,     \* "API documentation generation complete!" was printed
    exit_code,  \* the process's exit code, -1 while it runs
    text,       \* the parser on its own: the source text
    result,     \* the parser on its own: what _parse_content returned
    docs,       \* the parser on its own: the documents rendered from result
    ppc,        \* the parser on its own: "start", "parsed", "rendered"
    class_info, \* the renderer on its own: the class entry
    doc,        \* the renderer on its own: the document, <<>> before rendering
    rpc         \* the renderer on its own: "start", "rendered"

walkVars == <<pc, argc, src_path, php_files, idx, current, content, parsed, queue,
              disk, opened, written, errors, banner, exit_code>>

parseVars == <<text, result, docs, ppc>>

renderVars == <<class_info, doc, rpc>>

vars == <<walkVars, parseVars, renderVars>>

DocPaths == {DocPath(f) : f \in RelPaths}

\* the walk before main runs ("main"), or not run at all ("idle")
WalkStart(at, args) ==
    /\ pc = at
    /\ argc \in args
    /\ src_path = <<>>
    /\ php_files = <<>>
    /\ idx = 0
    /\ current = 0
    /\ content = <<>>
    /\ parsed = EmptyResult
    /\ queue = <<>>
    /\ disk = [p \in DocPaths |-> Absent]
    /\ opened = {}
    /\ written = <<>>
    /\ errors = <<>>
    /\ banner = FALSE
    /\ exit_code = -1

ParseIdle == text = <<>> /\ result = EmptyResult /\ docs = EmptyResult /\ ppc = "idle"

RenderIdle == class_info = <<>> /\ doc = <<>> /\ rpc = "idle"

WalkInit == WalkStart("main", {2, 3})

WalkIdle == WalkStart("idle", {0})

Init == WalkInit /\ ParseIdle /\ RenderIdle

\* main: the argument count is wrong
MainUsage ==
    /\ pc = "main"
    /\ argc # 3
    /\ pc' = "exit"
    /\ exit_code' = 1
    /\ UNCHANGED <<argc, src_path, php_files, idx, current, content, parsed, queue,
                   disk, opened, written, errors, banner>>
    /\ UNCHANGED <<parseVars, renderVars>>

\* main, and generate_documentation up to its loop: the tree is listed
MainStart ==
    /\ pc = "main"
    /\ argc = 3
    /\ \E root \in SrcRoots, files \in FileLists :
          /\ src_path' = root
          /\ php_files' = files
    /\ idx' = 1
    /\ pc' = "loop"
    /\ UNCHANGED <<argc, current, content, parsed, queue, disk, opened, written,
                   errors, banner, exit_code>>
    /\ UNCHANGED <<parseVars, renderVars>>

\* generate_documentation: a file the loop skips
SkipFile ==
    /\ pc = "loop"
    /\ idx <= Len(php_files)
    /\ _should_skip_file(src_path, php_files[idx])
    /\ idx' = idx + 1
    /\ UNCHANGED <<pc, argc, src_path, php_files, current, content, parsed, queue,
                   disk, opened, written, errors, banner, exit_code>>
    /\ UNCHANGED <<parseVars, renderVars>>

\* an exception leaves _process_php_file's try block
Raised(file) ==
    /\ queue' = <<>>
    /\ IF ExceptClause.caught
       THEN /\ errors' = Append(errors, file)
            /\ pc' = "loop"
            /\ idx' = idx + 1
            /\ exit_code' = exit_code
       ELSE /\ errors' = errors
            /\ pc' = "crashed"
            /\ idx' = idx
            /\ exit_code' = 1

\* a statement of the try block is done: on to the next render, or the next file
Continue(rest) ==
    /\ queue' = rest
    /\ errors' = errors
    /\ exit_code' = exit_code
    /\ IF rest = <<>>
       THEN pc' = "loop" /\ idx' = idx + 1
       ELSE pc' = "render" /\ idx' = idx

\* generate_documentation calls _process_php_file, which calls parse_file
ParseFile ==
    /\ pc = "loop"
    /\ idx <= Len(php_files)
    /\ ~_should_skip_file(src_path, php_files[idx])
    /\ current' = idx
    /\ opened' = opened \cup {php_files[idx]}
    /\ \/ \* open or read raises
          /\ Raised(idx)
          /\ UNCHANGED <<content, parsed>>
       \/ \E source \in DriverSources :
             /\ content' = source
             /\ LET returned == parse_file(source)
                IN  /\ parsed' = returned
                    /\ Continue(RenderQueue(returned))
    /\ UNCHANGED <<argc, src_path, php_files, disk, written, banner>>
    /\ UNCHANGED <<parseVars, renderVars>>

\* the end of a _generate_*_doc: mkdir, open(doc_path, 'w'), f.write(content)
WriteDoc(doc_path, composed) ==
    \/ \* mkdir or open raises: the file is as it was
       /\ Raised(current)
       /\ UNCHANGED <<disk, written>>
    \/ \* write or close raises: open has truncated the file, part of the text is in it
       /\ \E n \in 0..(Len(composed) - 1) :
             disk' = [disk EXCEPT ![doc_path] = File(SubSeq(composed, 1, n))]
       /\ written' = Append(written, doc_path)
       /\ Raised(current)
    \/ /\ disk' = [disk EXCEPT ![doc_path] = File(WriteText(disk[doc_path].text, composed))]
       /\ written' = Append(written, doc_path)
       /\ Continue(Tail(queue))

\* _process_php_file: self._generate_class_doc(class_info, php_file)
GenerateClassDoc ==
    /\ pc = "render"
    /\ Head(queue).kind = "class"
    /\ WriteDoc(DocPath(php_files[current]), ClassDoc(Head(queue).info))
    /\ UNCHANGED <<argc, src_path, php_files, current, content, parsed, opened, banner>>
    /\ UNCHANGED <<parseVars, renderVars>>

\* _process_php_file: self._generate_interface_doc(interface_info, php_file)
GenerateInterfaceDoc ==
    /\ pc = "render"
    /\ Head(queue).kind = "interface"
    /\ WriteDoc(DocPath(php_files[current]), InterfaceDoc(Head(queue).info))
    /\ UNCHANGED <<argc, src_path, php_files, current, content, parsed, opened, banner>>
    /\ UNCHANGED <<parseVars, renderVars>>

\* _process_php_file: self._generate_enum_doc(enum_info, php_file)
GenerateEnumDoc ==
    /\ pc = "render"
    /\ Head(queue).kind = "enum"
    /\ WriteDoc(DocPath(php_files[current]), EnumDoc(Head(queue).info))
    /\ UNCHANGED <<argc, src_path, php_files, current, content, parsed, opened, banner>>
    /\ UNCHANGED <<parseVars, renderVars>>

\* the loop is over: generate_documentation returns, main prints the banner
Finish ==
    /\ pc = "loop"
    /\ idx > Len(php_files)
    /\ pc' = "done"
    /\ banner' = TRUE
    /\ exit_code' = 0
    /\ UNCHANGED <<argc, src_path, php_files, idx, current, content, parsed, queue,
                   disk, opened, written, errors>>
    /\ UNCHANGED <<parseVars, renderVars>>

Next ==
    \/ MainUsage
    \/ MainStart
    \/ SkipFile
    \/ ParseFile
    \/ GenerateClassDoc
    \/ GenerateInterfaceDoc
    \/ GenerateEnumDoc
    \/ Finish

Spec == Init /\ [][Next]_vars

\* the interpreter runs the single thread until it exits
FairSpec == Spec /\ WF_vars(Next)

(* ------------------------------------------------------------------ *)
(* The parser and the renderer on one source text                      *)
(* ------------------------------------------------------------------ *)

\* the most items (doc-comments, declarations) a source text holds
MaxItems == 3

\* /** txt */
DocPlain == <<"/**", " ", "txt", " ", "*/", "\n">>

\* a doc-comment in PHPDoc's layout: every line after the first starts with " * "
DocStar == <<"/**", "\n", " ", "*", " ", "txt", "\n", " ", "*/", "\n">>

\* a doc-comment whose text mentions a class and a brace
DocProse == <<"/**", " ", "txt", " ", "class", " ", "wraps", " ", "{", "txt", "}", " ", "*/", "\n">>

ClassEmpty == <<"class", " ", "A", " ", "{", " ", "}", "\n">>

ClassFull ==
    <<"class", " ", "B", " ", "extends", " ", "A", " ", "implements", " ", "I", ",", " ", "J",
      " ", "{", "\n",
      " ", "public", " ", "function", " ", "f", "(", ")", ":", " ", "T", " ", "{", " ", "}", "\n",
      " ", "public", " ", "T", " ", "$", "x", ";", "\n",
      "}", "\n">>

InterfaceItem ==
    <<"interface", " ", "I", " ", "{", "\n",
      " ", "public", " ", "function", " ", "f", "(", ")", ":", " ", "T", ";", "\n",
      "}", "\n">>

EnumBacked ==
    <<"enum", " ", "E", " ", ":", " ", "T", " ", "{", "\n",
      " ", "case", " ", "c1", " ", "=", " ", "v", ";", "\n",
      " ", "case", " ", "c2", " ", "=", " ", "v", ";", "\n",
      "}", "\n">>

EnumPlain ==
    <<"enum", " ", "C", " ", "{", "\n",
      " ", "case", " ", "c2", ";", "\n",
      " ", "case", " ", "c1", ";", "\n",
      "}", "\n">>

Items == {DocPlain, DocStar, DocProse, ClassEmpty, ClassFull, InterfaceItem,
          EnumBacked, EnumPlain}

Sources == Texts(Items, MaxItems)

ParseInit ==
    /\ text \in Sources
    /\ result = EmptyResult
    /\ docs = EmptyResult
    /\ ppc = "start"

\* PHPDocParser._parse_content on the text
ParseContent ==
    /\ ppc = "start"
    /\ result' = _parse_content(text)
    /\ ppc' = "parsed"
    /\ UNCHANGED <<text, docs>>
    /\ UNCHANGED <<walkVars, renderVars>>

\* the document each _generate_*_doc composes for each entry of the result
RenderResult ==
    /\ ppc = "parsed"
    /\ docs' = [result EXCEPT
                  !.classes    = [k \in 1..Len(result.classes) |-> ClassDoc(result.classes[k])],
                  !.interfaces = [k \in 1..Len(result.interfaces) |-> InterfaceDoc(result.interfaces[k])],
                  !.enums      = [k \in 1..Len(result.enums) |-> EnumDoc(result.enums[k])]]
    /\ ppc' = "rendered"
    /\ UNCHANGED <<text, result>>
    /\ UNCHANGED <<walkVars, renderVars>>

ParseNext == ParseContent \/ RenderResult

InitParse == ParseInit /\ WalkIdle /\ RenderIdle

SpecParse == InitParse /\ [][ParseNext]_vars

(* ------------------------------------------------------------------ *)
(* The class renderer on one class entry                               *)
(* ------------------------------------------------------------------ *)

\* the most methods, and the most properties, a class entry holds
MaxMembers == 2

RECURSIVE SeqsUpTo(_, _)
SeqsUpTo(S, n) ==
    IF n = 0 THEN {<<>>}
    ELSE LET shorter == SeqsUpTo(S, n - 1)
         IN  shorter \cup {Append(q, x) : q \in shorter, x \in S}

DocStrings == {<<>>, <<"/**", " ", "txt", " ", "*/">>,
               <<"/**", "\n", " ", "*", " ", "txt", "\n", " ", "*/">>}

MethodInfos == [name : {<<"f">>}, return_type : {<<>>, <<"T">>},
                docstring : {<<>>, <<"/**", " ", "txt", " ", "*/">>}]

PropertyInfos == [name : {<<"x">>}, docstring : {<<>>, <<"/**", " ", "txt", " ", "*/">>}]

ClassInfos ==
    [name       : {<<"A">>},
     extends    : {<<>>, <<"B">>},
     implements : {<<>>, <<(<<"I">>)>>, <<(<<"I">>), (<<"J">>)>>},
     docstring  : DocStrings,
     methods    : SeqsUpTo(MethodInfos, MaxMembers),
     properties : SeqsUpTo(PropertyInfos, MaxMembers)]

RenderInit ==
    /\ class_info \in ClassInfos
    /\ doc = <<>>
    /\ rpc = "start"

\* APIDocumentationGenerator._generate_class_doc composes the entry's document
RenderClass ==
    /\ rpc = "start"
    /\ doc' = ClassDoc(class_info)
    /\ rpc' = "rendered"
    /\ UNCHANGED class_info
    /\ UNCHANGED <<walkVars, parseVars>>

RenderNext == RenderClass

InitRender == RenderInit /\ WalkIdle /\ ParseIdle

SpecRender == InitRender /\ [][RenderNext]_vars

(* ------------------------------------------------------------------ *)
(* What the claims speak of                                            *)
(* ------------------------------------------------------------------ *)

\* the names of a list of members
Names(members) == [k \in 1..Len(members) |-> members[k].name]

\* whether lexeme lex occurs in document d
Has(d, lex) == \E i \in 1..Len(d) : d[i] = lex

\* the last index before i that holds no whitespace, 0 when there is none
PrevLexeme(t, i) ==
    LET before == {j \in 1..(i - 1) : ~IsWs(t[j])}
    IN  IF before = {} THEN 0 ELSE Max(before)

\* index i lies inside a block comment opened by "/**"
InComment(t, i) ==
    LET a == RFind(t, "/**", i)
    IN  a > 0 /\ (Find(t, "*/", a) = 0 \/ Find(t, "*/", a) > i)

\* the declarations the parser found in t, each with where it starts, the
\* doc-comment the parser gave it and the document rendered for it
Declarations(t, r) ==
    LET cm == finditer([i \in 1..Len(t) |-> class_pattern(t, i)])
        im == finditer([i \in 1..Len(t) |-> interface_pattern(t, i)])
        em == finditer([i \in 1..Len(t) |-> enum_pattern(t, i)])
    IN  [k \in 1..Len(cm) |-> [start |-> cm[k].start, docstring |-> r.classes[k].docstring,
                                rendered |-> ClassDoc(r.classes[k])]]
        \o [k \in 1..Len(im) |-> [start |-> im[k].start, docstring |-> r.interfaces[k].docstring,
                                   rendered |-> InterfaceDoc(r.interfaces[k])]]
        \o [k \in 1..Len(em) |-> [start |-> em[k].start, docstring |-> r.enums[k].docstring,
                                   rendered |-> EnumDoc(r.enums[k])]]

\* the case names an enum's body declares: the body runs from the opening
\* brace (the last lexeme of match m) to the closing brace
DeclaredCases(t, m) ==
    LET open  == m.end - 1
        close == IF Find(t, "}", open) = 0 THEN Len(t) ELSE Find(t, "}", open)
    IN  Names(_extract_enum_cases(t, open, close + 1))

\* the names of the "### <name>" entries below the "## Cases" heading of d
CaseHeadings(d) ==
    LET from  == Find(d, "## Cases", 1)
        marks == SelectSeq([i \in 1..Len(d) |-> i],
                           LAMBDA i : from > 0 /\ i > from /\ d[i] = "### ")
    IN  [k \in 1..Len(marks) |-> SubSeq(d, marks[k] + 1, Find(d, "\n\n", marks[k]) - 1)]

\* C1: for every enum the parser finds, the 'cases' list holds exactly the
\* names the enum's body declares, in declaration order, and the enum's
\* document lists those names in that order under "## Cases".
C1_EnumCasesInOrder ==
    ppc = "rendered" =>
        \A k \in 1..Len(result.enums) :
            LET found    == finditer([i \in 1..Len(text) |-> enum_pattern(text, i)])
                declared == DeclaredCases(text, found[k])
            IN  /\ Names(result.enums[k].cases) = declared
                /\ CaseHeadings(docs.enums[k]) = declared

\* the text after the opening brace of class match m, up to the next "class"
\* keyword or the end of the text: its first index and the index after it
BodySpan(t, m) ==
    LET next == Find(t, "class", m.end)
    IN  [from |-> m.end - 1, to |-> IF next = 0 THEN Len(t) + 1 ELSE next]

\* C2: for every class the parser finds, 'methods' and 'properties' hold, in
\* source order, every method signature and every property declaration of
\* the span from the class's opening brace to the next "class" keyword or
\* the end of the text.
C2_ClassMembersExtracted ==
    ppc # "start" =>
        \A k \in 1..Len(result.classes) :
            LET found == finditer([i \in 1..Len(text) |-> class_pattern(text, i)])
                span  == BodySpan(text, found[k])
            IN  /\ Names(result.classes[k].methods)
                     = Names(_extract_methods(text, span.from, span.to))
                /\ Names(result.classes[k].properties)
                     = Names(_extract_properties(text, span.from, span.to))

\* the lines of a list that are not empty
RECURSIVE NonEmpty(_)
NonEmpty(lines) ==
    IF lines = <<>> THEN <<>>
    ELSE IF Head(lines) = <<>> THEN NonEmpty(Tail(lines))
    ELSE <<Head(lines)>> \o NonEmpty(Tail(lines))

\* a doc-comment's text: the delimiters and each line's leading asterisk
\* removed, the text after the asterisk kept
Unstarred(docstring) ==
    LET inner == SubSeq(docstring, 2, Len(docstring) - 1)
        lines == StripAll(Split(inner, "\n"))
        bare  == [k \in 1..Len(lines) |->
                     IF lines[k] # <<>> /\ Head(lines[k]) = "*"
                     THEN Strip(Tail(lines[k])) ELSE lines[k]]
    IN  Join(NonEmpty(bare), <<"\n">>)

\* the paragraph after the heading of document d
FirstParagraph(d) ==
    LET a == Find(d, "\n\n", 1)
        b == Find(d, "\n\n", a + 1)
    IN  SubSeq(d, a + 1, b - 1)

\* C3: for every class with a doc-comment, the first paragraph after the
\* heading of its document is the comment's text with the delimiters and
\* each line's leading asterisk removed.
C3_DocParagraphKeepsText ==
    ppc = "rendered" =>
        \A k \in 1..Len(result.classes) :
            result.classes[k].docstring # <<>> =>
                FirstParagraph(docs.classes[k]) = Unstarred(result.classes[k].docstring)

\* C4: when a doc-comment block precedes declaration D1, declaration D2
\* follows D1 and no "/**" lies between them, D2's docstring is empty.
C4_DocNotInherited ==
    ppc # "start" =>
        LET D == Declarations(text, result)
        IN  \A i, j \in 1..Len(D) :
                LET c == RFind(text, "/**", D[i].start)
                IN  ( /\ D[i].start < D[j].start
                      /\ c > 0
                      /\ Find(text, "*/", c) > 0
                      /\ Find(text, "*/", c) < D[i].start
                      /\ RFind(text, "/**", D[j].start) = c )
                    => D[j].docstring = <<>>

\* the "class" keywords of t outside comments
ClassKeywords(t) == {i \in 1..Len(t) : t[i] = "class" /\ ~InComment(t, i)}

\* C8: when the text holds exactly one class declaration and a doc-comment
\* block comes right before it, 'classes' has exactly one entry, and its
\* docstring is that block from "/**" through "*/".
C8_OneDocumentedClass ==
    ppc # "start" =>
        \A i \in ClassKeywords(text) :
            ( /\ ClassKeywords(text) = {i}
              /\ At(text, PrevLexeme(text, i)) = "*/"
              /\ RFind(text, "/**", i) > 0 )
            => /\ Len(result.classes) = 1
               /\ result.classes[1].docstring
                    = SubSeq(text, RFind(text, "/**", i), PrevLexeme(text, i))

\* C10: the doc-comment _extract_phpdoc_before gives a declaration lies
\* before the declaration's start p: a non-empty result starts at the last
\* "/**" before p and its "*/" ends at or before p.
C10_DocBlockBeforePosition ==
    ppc # "start" =>
        LET D == Declarations(text, result)
        IN  \A i \in 1..Len(D) :
                /\ D[i].docstring = _extract_phpdoc_before(text, D[i].start)
                /\ D[i].docstring # <<>> =>
                      RFind(text, "/**", D[i].start) + Len(D[i].docstring) <= D[i].start

\* the files whose processing raised
Failed == {errors[k] : k \in 1..Len(errors)}

\* _process_php_file has returned from the file it was last called on
Returned == pc \in {"loop", "done"} /\ current > 0

\* the number of declarations the parser found
NumDecls(r) == Len(r.classes) + Len(r.interfaces) + Len(r.enums)

\* the last n entries of sequence s
LastN(s, n) == SubSeq(s, Len(s) - n + 1, Len(s))

\* the document of the declaration rendered last: the last enum if there is
\* one, else the last interface, else the last class
LastRendered(r) ==
    IF r.enums # <<>> THEN EnumDoc(r.enums[Len(r.enums)])
    ELSE IF r.interfaces # <<>> THEN InterfaceDoc(r.interfaces[Len(r.interfaces)])
    ELSE ClassDoc(r.classes[Len(r.classes)])

\* the document of the declaration that starts last in the source text
LatestInSource(t, r) ==
    LET D == Declarations(t, r)
    IN  D[CHOOSE i \in 1..Len(D) : \A j \in 1..Len(D) : D[j].start <= D[i].start].rendered

\* a file with two declarations has been processed without an exception
TwoDeclarationsDone == Returned /\ current \notin Failed /\ NumDecls(parsed) = 2

\* C5 (as stated): once a file with two declarations has been processed, both
\* renders went to the file's output path, which holds only the document of
\* the declaration that appears later in the source text.
C5_LaterInSourceSurvives ==
    TwoDeclarationsDone =>
        /\ LastN(written, 2) = <<DocPath(php_files[current]), DocPath(php_files[current])>>
        /\ disk[DocPath(php_files[current])] = File(LatestInSource(content, parsed))

\* C5 (amended): once a file with two declarations has been processed without
\* an exception, both renders went to the file's output path, which holds
\* only the document of the declaration rendered last (classes are rendered
\* first, then interfaces, then enums, each kind in source order).
C5_LastRenderedSurvives ==
    TwoDeclarationsDone =>
        /\ LastN(written, 2) = <<DocPath(php_files[current]), DocPath(php_files[current])>>
        /\ disk[DocPath(php_files[current])] = File(LastRendered(parsed))

\* C5's case: an enum followed by a class in one file, both rendered
C5_Witness ==
    /\ TwoDeclarationsDone
    /\ Len(parsed.classes) = 1
    /\ Len(parsed.enums) = 1
    /\ Head(content) = "enum"

\* str(file_path) holds one of the exclusion substrings: a directory "tests"
\* or "vendor" with a segment before it, or the name "Test.php" or "test.php"
\* with a segment before it
Excluded(root, file) ==
    LET before == root \o file.dirs
    IN  \/ \E i \in 2..Len(before) : before[i] \in {"tests", "vendor"}
        \/ before # <<>> /\ file.stem \in {"Test", "test"}

\* a step in which an exception was caught: an error line was printed
Caught == Len(errors') = Len(errors) + 1

\* every non-excluded file listed after file i has been handed to parse_file
LaterFilesProcessed(i) ==
    \A j \in (i + 1)..Len(php_files) :
        ~Excluded(src_path, php_files[j]) => php_files[j] \in opened

\* the run ended with the completion banner and exit code 0
Completed == pc = "done" /\ banner /\ exit_code = 0

\* C6 (as stated): an exception raised while a file is processed is caught in
\* _process_php_file and leaves every output file already written as it was;
\* every later non-excluded file is processed and the run reaches the
\* completion banner with exit code 0.
C6_FailureLeavesOutputUntouched ==
    /\ [][Caught => /\ pc' = "loop" /\ idx' = idx + 1 /\ exit_code' = exit_code
                    /\ \A p \in DocPaths : disk[p].exists => disk'[p] = disk[p]]_vars
    /\ [](pc # "crashed")
    /\ [](pc = "done" => \A k \in 1..Len(errors) : LaterFilesProcessed(errors[k]))
    /\ (errors # <<>>) ~> Completed

\* C6 (amended): an exception raised while a file is processed is caught in
\* _process_php_file and leaves the output files of every other source file as
\* they were (the failing file's own output may be left truncated by a write
\* that fails); every later non-excluded file is processed and the run reaches
\* the completion banner with exit code 0.
C6_FailureLeavesOtherOutputUntouched ==
    /\ [][Caught => /\ pc' = "loop" /\ idx' = idx + 1 /\ exit_code' = exit_code
                    /\ \A p \in DocPaths \ {DocPath(php_files[current'])} :
                          disk'[p] = disk[p]]_vars
    /\ [](pc # "crashed")
    /\ [](pc = "done" => \A k \in 1..Len(errors) : LaterFilesProcessed(errors[k]))
    /\ (errors # <<>>) ~> Completed

\* C6's case: the first file failed after one of its declarations was written,
\* the second file was processed and written, and the run completed
C6_Witness ==
    /\ Completed
    /\ errors = <<1>>
    /\ Len(php_files) = 2
    /\ written = <<DocPath(php_files[1]), DocPath(php_files[2])>>
    /\ disk[DocPath(php_files[1])].exists

\* C7: a source file whose path holds an exclusion substring is never opened
\* for reading, and no step writes the output path that mirrors it.
C7_ExcludedNeverTouched ==
    \A i \in 1..Len(php_files) :
        Excluded(src_path, php_files[i]) =>
            /\ php_files[i] \notin opened
            /\ \A w \in 1..Len(written) : written[w] # DocPath(php_files[i])
            /\ ~disk[DocPath(php_files[i])].exists

\* C7's case: the run is over, it listed an excluded file before a file it
\* processed and wrote
C7_Witness ==
    /\ pc = "done"
    /\ Len(php_files) = 2
    /\ Excluded(src_path, php_files[1])
    /\ php_files[2] \in opened
    /\ written # <<>>

\* C9: the class document has an "**Extends:**" line iff the parent is set, an
\* "**Implements:**" line iff the interface list is non-empty, a "## Methods"
\* section iff the method list is non-empty and a "## Properties" section iff
\* the property list is non-empty; with no doc-comment, no parent and no
\* interfaces the heading is followed at once by the member sections present.
C9_SectionsIffPresent ==
    rpc = "rendered" =>
        /\ Has(doc, "**Extends:** ") <=> class_info.extends # <<>>
        /\ Has(doc, "**Implements:** ") <=> class_info.implements # <<>>
        /\ Has(doc, "## Methods") <=> class_info.methods # <<>>
        /\ Has(doc, "## Properties") <=> class_info.properties # <<>>
        /\ (class_info.docstring = <<>> /\ class_info.extends = <<>>
                /\ class_info.implements = <<>>) =>
              /\ SubSeq(doc, 1, 3) = <<"# ">> \o class_info.name \o <<"\n\n">>
              /\ At(doc, 4) = (IF class_info.methods # <<>> THEN "## Methods"
                               ELSE IF class_info.properties # <<>> THEN "## Properties"
                               ELSE "")
              /\ (class_info.methods # <<>> /\ class_info.properties # <<>>) =>
                    Find(doc, "## Methods", 1) < Find(doc, "## Properties", 1)

\* C9's case: a class with no doc-comment, parent or interfaces, with methods
\* and properties, has been rendered
C9_Witness ==
    /\ rpc = "rendered"
    /\ class_info.docstring = <<>>
    /\ class_info.extends = <<>>
    /\ class_info.implements = <<>>
    /\ Len(class_info.methods) = 2
    /\ class_info.properties # <<>>

=============================================================================
